---- MODULE Spec2Model ----
(***************************************************************************)
(* Per-asset training / prediction pipeline of                             *)
(* "Algorithmic Trading/strategyCatherineHerrera.ipynb":                   *)
(* get_features, get_target_classes, train_model and predict_weights.      *)
(*                                                                         *)
(* Numbers.  A price is a positive integer; NaN (a missing value) is the   *)
(* integer NaN below.  Indicator values are real numbers in the program;   *)
(* here an indicator value is the tuple of the inputs it is computed from  *)
(* (equal inputs give equal values), and the empty tuple NaNF is a missing *)
(* indicator value.  Log(x) is the one-element tuple <<x>>; Log(0) stands  *)
(* for -inf, which numpy returns for log(0) and which is not missing.      *)
(*                                                                         *)
(* Windows.  A window (the "data" argument) gives, per asset, WindowLen    *)
(* daily bars.  An asset's bars are missing before it is listed and after  *)
(* it is delisted, and present in between.                                 *)
(***************************************************************************)
EXTENDS Integers, Sequences, FiniteSets, TLC

\* ---------------------------------------------------------------- bounds
WindowLen == 72         \* days in a window passed to train / predict
MaxTrail == 1           \* days a delisted asset is missing at the end of a window
NeighbourChoices == 2   \* choices of nearest neighbours tried per prediction
MaxCalls == 2           \* retraining events: calls of train_model in a row

\* ------------------------------------------------------ program constants
TrendPeriod == 60       \* qnta.lwma(close, 60)
TrendRoc == 1           \* qnta.roc(..., 1)
MacdSlow == 26          \* qnta.macd(data, 12, 26, 9)
MacdSignal == 9
VolatilityPeriod == 14  \* qnta.lwma(volatility, 14)
StochasticPeriod == 14  \* qnta.stochastic(high, low, close, 14)
RsiPeriod == 14         \* qnta.rsi(close), default period
MomentumPeriod == 14    \* qnta.roc(close, 14)
MinSamples == 10        \* len(features_cur.time) < 10
MinRows == 1            \* len(features_cur.time) < 1
n_neighbors == 5        \* get_model(n_neighbors=5)
class_positive == 1
class_negative == 0

NaN == 0 - 1
NaNF == <<>>

asset_name_all == <<"A1", "A2">>
Assets == {asset_name_all[i] : i \in 1..Len(asset_name_all)}
Fields == {"high", "low", "close"}
Times == 1..WindowLen

\* ------------------------------------------------------------ input data
\* Close prices of a listed asset repeat one of these patterns.
Patterns == { <<10, 12, 11, 11, 13>>, <<7, 7, 6>> }

\* One asset's fields: missing on the first lead days and the last trail
\* days; high and low lie one above and one below close.
MkSeries(lead, trail, pat) ==
    LET listed(t) == t > lead /\ t <= WindowLen - trail
        c(t) == pat[((t - 1) % Len(pat)) + 1]
    IN  [high  |-> [t \in Times |-> IF listed(t) THEN c(t) + 1 ELSE NaN],
         low   |-> [t \in Times |-> IF listed(t) THEN c(t) - 1 ELSE NaN],
         close |-> [t \in Times |-> IF listed(t) THEN c(t) ELSE NaN]]

\* Rows needed before the slowest channel (trend) is defined.
Warmup == TrendPeriod + TrendRoc

\* Listing days: from the first day; so that exactly MinSamples, MinSamples-1
\* or one feature row is complete; never.
Leads == { 0,
           WindowLen - (Warmup + MinSamples - 1),
           WindowLen - (Warmup + MinSamples - 2),
           WindowLen - Warmup,
           WindowLen }

Shapes == { <<l, 0>> : l \in Leads } \cup { <<0, MaxTrail>> }

AssetSeries == { MkSeries(sh[1], sh[2], pat) : sh \in Shapes, pat \in Patterns }

\* The windows predict_weights is called with: every asset has all its rows,
\* one complete row or none, or is missing at the end.  The prices do not
\* matter to the model of predict, so one pattern is enough.
PredictShapes ==
    { <<0, 0>>, <<WindowLen - Warmup, 0>>, <<WindowLen, 0>>, <<0, MaxTrail>> }

PredictSeries == { MkSeries(sh[1], sh[2], <<10, 12, 11, 11, 13>>) : sh \in PredictShapes }

\* ---------------------------------------------------------- xarray helpers
\* data.sel(field=f): one field of every asset
Sel(data, f) == [a \in DOMAIN data |-> data[a][f]]

\* data restricted to times <= t
Truncate(data, t) ==
    [a \in DOMAIN data |-> [f \in DOMAIN data[a] |-> SubSeq(data[a][f], 1, t)]]

IsNaN(x) == x = NaN

\* a comparison that also accepts equal values
Gt_or_equal(x, y) == (~IsNaN(x)) /\ (~IsNaN(y)) /\ x >= y

\* NaN compares false with everything
Gt(x, y) == (~IsNaN(x)) /\ (~IsNaN(y)) /\ x > y

\* qnta.shift(series, periods) along time; the vacated places are missing
shift(series, periods) ==
    [a \in DOMAIN series |->
        [t \in DOMAIN series[a] |->
            IF (t - periods) \in DOMAIN series[a]
            THEN series[a][t - periods] ELSE NaN]]

\* xr.where(left > right, x, y)
where_gt(left, right, x, y) ==
    [a \in DOMAIN left |->
        [t \in DOMAIN left[a] |->
            IF Gt(left[a][t], right[a][t]) THEN x ELSE y]]

get_target_classes(data) ==
    LET price_current == Sel(data, "close")
        price_future  == shift(price_current, 0 - 1)
    IN  where_gt(price_future, price_current, class_positive, class_negative)

\* ------------------------------------------------------------- indicators
\* All values of s on lo..hi are present.
Present(s, lo, hi) == lo >= 1 /\ \A k \in lo..hi : ~IsNaN(s[k])

\* An indicator over the last n values of s.
Rolling(s, t, n) ==
    IF Present(s, t - n + 1, t) THEN SubSeq(s, t - n + 1, t) ELSE NaNF

\* A recursively smoothed indicator (exponential or Wilder average): defined
\* once n values are present, a function of the whole series up to t.
Smoothed(s, t, n) ==
    IF Present(s, t - n + 1, t) THEN SubSeq(s, 1, t) ELSE NaNF

\* s.ffill("time"): the last present value at or before each time
ffill(s) ==
    LET f == [t \in DOMAIN s |->
                IF ~IsNaN(s[t]) THEN s[t]
                ELSE IF \A k \in 1..t : IsNaN(s[k]) THEN NaN
                ELSE s[CHOOSE k \in 1..t :
                         ~IsNaN(s[k]) /\ \A j \in (k + 1)..t : IsNaN(s[j])]]
    IN  SubSeq(f, 1, Len(s))

\* s.bfill("time"): the first present value at or after each time
bfill(s) ==
    LET f == [t \in DOMAIN s |->
                IF ~IsNaN(s[t]) THEN s[t]
                ELSE IF \A k \in t..Len(s) : IsNaN(s[k]) THEN NaN
                ELSE s[CHOOSE k \in t..Len(s) :
                         ~IsNaN(s[k]) /\ \A j \in t..(k - 1) : IsNaN(s[j])]]
    IN  SubSeq(f, 1, Len(s))

fillna(s, v) ==
    SubSeq([t \in DOMAIN s |-> IF IsNaN(s[t]) THEN v ELSE s[t]], 1, Len(s))

\* np.log
Log(x) == <<x>>

\* qnta.roc(qnta.lwma(close, 60), 1)
trend(d, t) == Rolling(d.close, t, TrendPeriod + TrendRoc)

\* the signal line of qnta.macd(data, 12, 26, 9), field close
macd2_signal(d, t) == Smoothed(d.close, t, MacdSlow + MacdSignal - 1)

\* qnta.lwma(qnta.tr(high, low, close) / close, 14); the true range reads
\* the previous close
volatility(d, t) ==
    IF Rolling(d.high, t, VolatilityPeriod) = NaNF
       \/ Rolling(d.low, t, VolatilityPeriod) = NaNF
       \/ Rolling(d.close, t, VolatilityPeriod + 1) = NaNF
    THEN NaNF
    ELSE <<Rolling(d.high, t, VolatilityPeriod),
           Rolling(d.low, t, VolatilityPeriod),
           Rolling(d.close, t, VolatilityPeriod + 1)>>

\* d of qnta.stochastic(high, low, close, 14)
stochastic_d(d, t) ==
    IF Smoothed(d.high, t, StochasticPeriod) = NaNF
       \/ Smoothed(d.low, t, StochasticPeriod) = NaNF
       \/ Smoothed(d.close, t, StochasticPeriod) = NaNF
    THEN NaNF
    ELSE <<Smoothed(d.high, t, StochasticPeriod),
           Smoothed(d.low, t, StochasticPeriod),
           Smoothed(d.close, t, StochasticPeriod)>>

\* qnta.rsi(close)
rsi(d, t) == Smoothed(d.close, t, RsiPeriod + 1)

\* np.log(close.ffill("time").bfill("time").fillna(0)), the whole series
price(d) ==
    LET filled == fillna(bfill(ffill(d.close)), 0)
    IN  [t \in DOMAIN d.close |-> Log(filled[t])]

\* qnta.roc(close, 14)
momentum(d, t) == Rolling(d.close, t, MomentumPeriod + 1)

Channels ==
    {"trend", "macd", "volatility", "stochastic_d", "rsi", "price", "momentum"}

\* One channel of one asset at one time; d is the asset's fields and p its
\* price channel.
feature(d, p, c, t) ==
    CASE c = "trend"        -> trend(d, t)
      [] c = "macd"         -> macd2_signal(d, t)
      [] c = "volatility"   -> volatility(d, t)
      [] c = "stochastic_d" -> stochastic_d(d, t)
      [] c = "rsi"          -> rsi(d, t)
      [] c = "price"        -> p[t]
      [] c = "momentum"     -> momentum(d, t)

\* get_features(data).sel(asset=a, time=t): the row of the tensor
get_features(data, a, t) ==
    LET p == price(data[a])
    IN  [c \in Channels |-> feature(data[a], p, c, t)]

\* no channel of the row of asset fields d at time t is missing
Complete(d, p, t) ==
    /\ feature(d, p, "trend", t) # NaNF
    /\ feature(d, p, "macd", t) # NaNF
    /\ feature(d, p, "volatility", t) # NaNF
    /\ feature(d, p, "stochastic_d", t) # NaNF
    /\ feature(d, p, "rsi", t) # NaNF
    /\ feature(d, p, "price", t) # NaNF
    /\ feature(d, p, "momentum", t) # NaNF

\* the time coordinate 1..n
TimeSeq(n) == [t \in 1..n |-> t]

Range(s) == {s[i] : i \in DOMAIN s}

\* dropna("time", "all"): a row goes only when all its channels are missing
dropna_features_all(data, a) ==
    LET d == data[a]
        p == price(d)
    IN  SelectSeq(TimeSeq(Len(d.close)),
                  LAMBDA t : \E c \in Channels : feature(d, p, c, t) # NaNF)

\* get_features(data).sel(asset=a).dropna("time", "any"): the times left
dropna_features(data, a) ==
    LET d == data[a]
        p == price(d)
    IN  SelectSeq(TimeSeq(Len(d.close)), LAMBDA t : Complete(d, p, t))

\* target_all.sel(asset=a).dropna("time", "any"): the time coordinate left
dropna_target(target_a) ==
    SelectSeq(TimeSeq(Len(target_a)), LAMBDA t : ~IsNaN(target_a[t]))

\* xr.align(target_cur, features_cur, join="inner"): the shared times
align_inner(target_cur, features_cur) ==
    LET shared == Range(target_cur) \cap Range(features_cur)
    IN  SelectSeq(target_cur, LAMBDA t : t \in shared)

\* xr.full_like(..., np.nan): a tensor that starts missing
nan_like(close) == [a \in DOMAIN close |-> [t \in DOMAIN close[a] |-> NaN]]

\* xr.ones_like
ones_like(close) == [a \in DOMAIN close |-> [t \in DOMAIN close[a] |-> 1]]

\* xr.zeros_like(data.sel(field="close"))
zeros_like(close) == [a \in DOMAIN close |-> [t \in DOMAIN close[a] |-> 0]]

\* ------------------------------------------------------------- the model
\* A fitted KNeighborsRegressor keeps its training set: the times of the
\* rows it was fit on and their labels.
fit(times, target_a) == [time |-> times, y |-> [i \in DOMAIN times |-> target_a[times[i]]]]

RECURSIVE SumSeq(_)
SumSeq(s) == IF s = <<>> THEN 0 ELSE Head(s) + SumSeq(Tail(s))

\* model.predict(rows): one value per row, the mean of the labels of
\* n_neighbors training rows, kept as the numerator over n_neighbors.  Which
\* rows are nearest depends on real-valued distances; here the neighbours of
\* the j-th row are n_neighbors consecutive training rows, starting at a
\* place that the choice o and the row fix.
predict(model, rows, o) ==
    LET n     == Len(model.y)
        first(j) == ((o + j - 1) % (n - n_neighbors + 1)) + 1
    IN  [j \in DOMAIN rows |->
            SumSeq(SubSeq(model.y, first(j), first(j) + n_neighbors - 1))]

\* ------------------------------------------------------------ train_model
\* the threshold of the regressor's neighbours instead of the code's
too_few_samples_below_k(features_cur) == Len(features_cur) < n_neighbors

\* a threshold one too low
too_few_samples_off_by_one(features_cur) == Len(features_cur) < MinSamples - 1

\* len(features_cur.time) < 10
too_few_samples(features_cur) == Len(features_cur) < MinSamples

\* no except clause: every exception leaves the function
no_except(exc) == "raise"

\* the except clause of train_model that takes an exception raised by fit
train_except(exc) == "log"

\* ---------------------------------------------------------- predict_weights
\* len(features_cur.time) < 1
no_rows(features_cur) == Len(features_cur) < MinRows

\* a bare except clause alone
bare_except(exc) == "log"

\* only the clause that re-raises
reraise_all(exc) == "raise"

\* the except clause of predict_weights that takes an exception
predict_except(exc) == IF exc = "KeyboardInterrupt" THEN "raise" ELSE "log"

Exceptions == {"Exception", "KeyboardInterrupt"}


\* ------------------------------------------------------------------ state
VARIABLES
    pc,        \* "idle", "train", "trained", "predict", "predicted", "aborted"
    data,      \* the window passed to the running function
    idx,       \* position of the asset loop in asset_name_all
    models,    \* the mapping asset -> fitted model
    weights,   \* the weights tensor of predict_weights, in 1/n_neighbors
    written,   \* the (asset, time) coordinates predict_weights assigned
    log,       \* what logging.exception recorded
    raised,    \* the exception that left the running function, or "none"
    lastcall,  \* the last call of model.fit / model.predict and how it ended
    fdata,     \* function checks: the window
    ftarget,   \* function checks: get_target_classes(fdata), <<>> before
    ft,        \* function checks: the time read, 0 before
    ffull,     \* function checks: feature rows at ft, from the full window
    ftrunc,    \* function checks: feature rows at ft, window cut at ft
    cycle,     \* retraining: the number of the running call of train_model
    prev       \* retraining: the mapping the call before returned

cvars == <<cycle, prev>>
pvars == <<pc, data, idx, models, weights, written, log, raised, lastcall,
           cycle, prev>>
fvars == <<fdata, ftarget, ft, ffull, ftrunc>>
vars == <<pc, data, idx, models, weights, written, log, raised, lastcall,
          fdata, ftarget, ft, ffull, ftrunc, cycle, prev>>

Windows == [Assets -> AssetSeries]
PredictWindows == [Assets -> PredictSeries]

NoData == [a \in Assets |-> [f \in Fields |-> <<>>]]
NoWeights == [a \in Assets |-> <<>>]
NoCall == [fn |-> "none", asset |-> "none", outcome |-> "none"]
EmptyMap == [a \in {} |-> 0]

InitPipeline ==
    /\ pc = "idle"
    /\ data = NoData
    /\ idx = 0
    /\ models = EmptyMap
    /\ weights = NoWeights
    /\ written = {}
    /\ log = <<>>
    /\ raised = "none"
    /\ lastcall = NoCall
    /\ cycle = 0
    /\ prev = EmptyMap

InitFunctions(d) ==
    /\ fdata = d
    /\ ftarget = <<>>
    /\ ft = 0
    /\ ffull = <<>>
    /\ ftrunc = <<>>

Init == InitPipeline /\ InitFunctions(NoData)

\* the asset of the current loop step
asset_name == asset_name_all[idx]

InLoop(p) == pc = p /\ idx \in 1..Len(asset_name_all)

\* features_all.sel(asset=a).dropna("time", "any") of a window
features_cur(d, a) == dropna_features(d, a)

\* the aligned times of asset a in window d (feature_for_learn_df.time)
for_learn(d, a) ==
    align_inner(dropna_target(get_target_classes(d)[a]), features_cur(d, a))

\* ---------------------------------------------------------- train_model
\* train_model(d) up to the loop
TrainCall ==
    /\ pc = "idle"
    /\ \E d \in Windows : data' = d
    /\ pc' = "train"
    /\ idx' = 1
    /\ models' = EmptyMap
    /\ lastcall' = NoCall
    /\ UNCHANGED <<weights, written, log, raised>>
    /\ UNCHANGED fvars
    /\ UNCHANGED cvars

\* a loop step that takes "continue"
TrainSkip ==
    /\ InLoop("train")
    /\ too_few_samples(features_cur(data, asset_name))
    /\ idx' = idx + 1
    /\ UNCHANGED <<pc, data, models, weights, written, log, raised, lastcall>>
    /\ UNCHANGED fvars
    /\ UNCHANGED cvars

\* a loop step whose model.fit returns
TrainFit ==
    /\ InLoop("train")
    /\ ~too_few_samples(features_cur(data, asset_name))
    /\ \E target_for_learn \in {get_target_classes(data)[asset_name]} :
       \E time_for_learn \in {for_learn(data, asset_name)} :
            models' = [a \in DOMAIN models \cup {asset_name} |->
                        IF a = asset_name
                        THEN fit(time_for_learn, target_for_learn)
                        ELSE models[a]]
    /\ lastcall' = [fn |-> "fit", asset |-> asset_name, outcome |-> "ok"]
    /\ idx' = idx + 1
    /\ UNCHANGED <<pc, data, weights, written, log, raised>>
    /\ UNCHANGED fvars
    /\ UNCHANGED cvars

\* a loop step whose model.fit raises exc
TrainFitRaises ==
    /\ InLoop("train")
    /\ ~too_few_samples(features_cur(data, asset_name))
    /\ \E exc \in Exceptions :
        /\ lastcall' = [fn |-> "fit", asset |-> asset_name, outcome |-> exc]
        /\ IF train_except(exc) = "log"
           THEN /\ log' = Append(log, [msg |-> "model training failed",
                                       asset |-> asset_name, exc |-> exc])
                /\ idx' = idx + 1
                /\ UNCHANGED <<pc, raised>>
           ELSE /\ pc' = "aborted"
                /\ raised' = exc
                /\ UNCHANGED <<log, idx>>
    /\ UNCHANGED <<data, models, weights, written>>
    /\ UNCHANGED fvars
    /\ UNCHANGED cvars

\* return models
TrainReturn ==
    /\ pc = "train"
    /\ idx = Len(asset_name_all) + 1
    /\ pc' = "trained"
    /\ UNCHANGED <<data, idx, models, weights, written, log, raised, lastcall>>
    /\ UNCHANGED fvars
    /\ UNCHANGED cvars

\* ------------------------------------------------------ predict_weights
\* predict_weights(models, d) up to the loop
PredictCall ==
    /\ pc = "trained"
    /\ \E d \in PredictWindows :
        /\ data' = d
        /\ weights' = zeros_like(Sel(d, "close"))
    /\ pc' = "predict"
    /\ idx' = 1
    /\ written' = {}
    /\ lastcall' = NoCall
    /\ UNCHANGED <<models, log, raised>>
    /\ UNCHANGED fvars
    /\ UNCHANGED cvars

\* a loop step for an asset that is not in models
PredictNoModel ==
    /\ InLoop("predict")
    /\ asset_name \notin DOMAIN models
    /\ idx' = idx + 1
    /\ UNCHANGED <<pc, data, models, weights, written, log, raised, lastcall>>
    /\ UNCHANGED fvars
    /\ UNCHANGED cvars

\* a loop step that takes "continue"
PredictNoRows ==
    /\ InLoop("predict")
    /\ asset_name \in DOMAIN models
    /\ no_rows(features_cur(data, asset_name))
    /\ idx' = idx + 1
    /\ UNCHANGED <<pc, data, models, weights, written, log, raised, lastcall>>
    /\ UNCHANGED fvars
    /\ UNCHANGED cvars

\* weights.loc[dict(time=times)] = values: the asset selector left out
loc_assign_every_asset(w, a, times, values) ==
    [b \in DOMAIN w |->
        [t \in DOMAIN w[b] |->
            IF \E j \in DOMAIN times : times[j] = t
            THEN values[CHOOSE j \in DOMAIN times : times[j] = t]
            ELSE w[b][t]]]

\* weights.loc[dict(asset=a, time=times)] = values
loc_assign(w, a, times, values) ==
    [w EXCEPT ![a] =
        [t \in DOMAIN @ |->
            IF \E j \in DOMAIN times : times[j] = t
            THEN values[CHOOSE j \in DOMAIN times : times[j] = t]
            ELSE @[t]]]

\* a loop step whose model.predict returns and whose result is assigned
PredictWrite ==
    /\ InLoop("predict")
    /\ asset_name \in DOMAIN models
    /\ \E rows \in {features_cur(data, asset_name)} :
        /\ ~no_rows(rows)
        /\ \E o \in 0..(NeighbourChoices - 1) :
           \E out \in {predict(models[asset_name], rows, o)} :
                weights' = loc_assign(weights, asset_name, rows, out)
        /\ written' = written \cup {<<asset_name, rows[j]>> : j \in DOMAIN rows}
    /\ lastcall' = [fn |-> "predict", asset |-> asset_name, outcome |-> "ok"]
    /\ idx' = idx + 1
    /\ UNCHANGED <<pc, data, models, log, raised>>
    /\ UNCHANGED fvars
    /\ UNCHANGED cvars

\* a loop step whose model.predict raises exc
PredictRaises ==
    /\ InLoop("predict")
    /\ asset_name \in DOMAIN models
    /\ ~no_rows(features_cur(data, asset_name))
    /\ \E exc \in Exceptions :
        /\ lastcall' = [fn |-> "predict", asset |-> asset_name, outcome |-> exc]
        /\ IF predict_except(exc) = "log"
           THEN /\ log' = Append(log, [msg |-> "model prediction failed",
                                       asset |-> asset_name, exc |-> exc])
                /\ idx' = idx + 1
                /\ UNCHANGED <<pc, raised>>
           ELSE /\ pc' = "aborted"
                /\ raised' = exc
                /\ UNCHANGED <<log, idx>>
    /\ UNCHANGED <<data, models, weights, written>>
    /\ UNCHANGED fvars
    /\ UNCHANGED cvars

\* return weights
PredictReturn ==
    /\ pc = "predict"
    /\ idx = Len(asset_name_all) + 1
    /\ pc' = "predicted"
    /\ UNCHANGED <<data, idx, models, weights, written, log, raised, lastcall>>
    /\ UNCHANGED fvars
    /\ UNCHANGED cvars

Next ==
    \/ TrainCall
    \/ TrainSkip
    \/ TrainFit
    \/ TrainFitRaises
    \/ TrainReturn
    \/ PredictCall
    \/ PredictNoModel
    \/ PredictNoRows
    \/ PredictWrite
    \/ PredictRaises
    \/ PredictReturn

Spec == Init /\ [][Next]_vars

\* ------------------------------------------------- retraining events
\* The walk-forward driver calls train_model again at every retraining
\* event and uses the mapping the latest call returned.

\* the dictionary of the call before, carried over
dict_kept(previous) == previous

\* models = dict()
dict_new(previous) == EmptyMap

\* The windows of the retraining events: every asset has all its rows or
\* one row less than MinSamples.
RetrainShapes == { <<0, 0>>, <<WindowLen - (Warmup + MinSamples - 2), 0>> }

RetrainSeries == { MkSeries(sh[1], sh[2], <<10, 12, 11, 11, 13>>) : sh \in RetrainShapes }

RetrainWindows == [Assets -> RetrainSeries]

\* a call train_model(d) of the driver, up to the loop
Retrain ==
    /\ pc \in {"idle", "trained"}
    /\ cycle < MaxCalls
    /\ \E d \in RetrainWindows : data' = d
    /\ pc' = "train"
    /\ idx' = 1
    /\ prev' = models
    /\ models' = dict_new(models)
    /\ cycle' = cycle + 1
    /\ lastcall' = NoCall
    /\ UNCHANGED <<weights, written, log, raised>>
    /\ UNCHANGED fvars

NextRetrain ==
    \/ Retrain
    \/ TrainSkip
    \/ TrainFit
    \/ TrainFitRaises
    \/ TrainReturn

SpecRetrain == Init /\ [][NextRetrain]_vars

\* ------------------------------------------- the functions on their own
InitFn == InitPipeline /\ \E d \in Windows : InitFunctions(d)

\* get_target_classes(fdata)
CallTarget ==
    /\ ftarget = <<>>
    /\ ftarget' = get_target_classes(fdata)
    /\ UNCHANGED <<fdata, ft, ffull, ftrunc>>
    /\ UNCHANGED pvars

\* get_features on fdata and on fdata cut at t, both read at t
CallFeatures ==
    /\ ft = 0
    /\ \E t \in Times :
        /\ ft' = t
        /\ ffull' = [a \in Assets |-> get_features(fdata, a, t)]
        /\ ftrunc' = [a \in Assets |-> get_features(Truncate(fdata, t), a, t)]
    /\ UNCHANGED <<fdata, ftarget>>
    /\ UNCHANGED pvars

NextFn == CallTarget \/ CallFeatures

SpecFn == InitFn /\ [][NextFn]_vars


\* ------------------------------------------------------------ properties
AssetIndex(a) == CHOOSE i \in DOMAIN asset_name_all : asset_name_all[i] = a

\* the aligned (feature, label) samples of asset a in window d
aligned_samples(d, a) == Len(for_learn(d, a))

\* logging.exception recorded msg for asset a
Logged(msg, a) == \E i \in DOMAIN log : log[i].msg = msg /\ log[i].asset = a
LoggedInterrupt(msg) ==
    \E i \in DOMAIN log : log[i].msg = msg /\ log[i].exc = "KeyboardInterrupt"

\* C1: while train_model runs and when it has returned, an asset with fewer
\* than 10 aligned (feature, label) samples in the window has no entry in
\* the mapping.
C1_TooFewSamplesNoEntry ==
    pc \in {"train", "trained"} =>
        \A a \in Assets :
            aligned_samples(data, a) < MinSamples => a \notin DOMAIN models

C1_Witness ==
    /\ pc = "trained"
    /\ \E a \in Assets :
        /\ aligned_samples(data, a) = MinSamples - 1
        /\ a \notin DOMAIN models
    /\ \E b \in Assets :
        /\ aligned_samples(data, b) = MinSamples
        /\ b \in DOMAIN models

\* C2: an error raised by model.fit never takes train_model out of its
\* loop, and in the mapping train_model returns the assets are exactly those
\* with at least 10 samples whose fit did not raise.
C2_FitFailureSkipsOneAsset ==
    /\ (lastcall.fn = "fit" /\ lastcall.outcome = "Exception")
            => (pc \in {"train", "trained"} /\ raised = "none")
    /\ pc = "trained" =>
        \A a \in Assets :
            a \in DOMAIN models <=>
                (aligned_samples(data, a) >= MinSamples
                 /\ ~Logged("model training failed", a))

C2_Witness ==
    /\ pc = "trained"
    /\ \E i \in DOMAIN log :
        /\ log[i].msg = "model training failed"
        /\ log[i].exc = "Exception"
        /\ log[i].asset = asset_name_all[1]
    /\ asset_name_all[1] \notin DOMAIN models
    /\ asset_name_all[2] \in DOMAIN models

\* C3: a user interrupt that arrives while train_model fits a model leaves
\* train_model and ends the run, and is not logged as a training failure.
C3_TrainInterruptPropagates ==
    (lastcall.fn = "fit" /\ lastcall.outcome = "KeyboardInterrupt") =>
        /\ pc = "aborted"
        /\ raised = "KeyboardInterrupt"
        /\ ~LoggedInterrupt("model training failed")

\* C4: a user interrupt that arrives while predict_weights runs inference
\* leaves predict_weights at once: the loop stays at the interrupted asset,
\* no weights are returned and the interrupt is not logged as a prediction
\* failure.
C4_PredictInterruptPropagates ==
    /\ (lastcall.fn = "predict" /\ lastcall.outcome = "KeyboardInterrupt") =>
        /\ pc = "aborted"
        /\ raised = "KeyboardInterrupt"
        /\ idx = AssetIndex(lastcall.asset)
        /\ \A t \in Times : <<lastcall.asset, t>> \notin written
    /\ ~LoggedInterrupt("model prediction failed")

C4_Witness ==
    /\ pc = "aborted"
    /\ lastcall = [fn |-> "predict", asset |-> asset_name_all[1],
                   outcome |-> "KeyboardInterrupt"]
    /\ asset_name_all[2] \in DOMAIN models
    /\ features_cur(data, asset_name_all[2]) # <<>>

\* C5: when inference fails for an asset with an error other than a user
\* interrupt, predict_weights goes on; every weight of that asset is zero
\* and none was assigned, and every other asset with a model and at least
\* one complete feature row has its predictions assigned in the result.
C5_PredictFailureLeavesZeros ==
    /\ (lastcall.fn = "predict" /\ lastcall.outcome = "Exception")
            => (pc \in {"predict", "predicted"} /\ raised = "none")
    /\ pc \in {"predict", "predicted"} =>
        \A a \in Assets :
            Logged("model prediction failed", a) =>
                \A t \in Times : weights[a][t] = 0 /\ <<a, t>> \notin written
    /\ pc = "predicted" =>
        \A a \in DOMAIN models :
            ~Logged("model prediction failed", a) =>
                \A rows \in {features_cur(data, a)} :
                    \A j \in DOMAIN rows : <<a, rows[j]>> \in written

C5_Witness ==
    /\ pc = "predicted"
    /\ \E a, b \in DOMAIN models :
        /\ Logged("model prediction failed", a)
        /\ \E t \in Times : <<b, t>> \in written /\ weights[b][t] # 0

\* C6: for an asset with a model, predict_weights assigns weights only at
\* times whose feature row has no missing channel; where a channel is
\* missing the weight is the initial zero.
C6_NoWeightOnMissingRow ==
    pc \in {"predict", "predicted"} =>
        \A a \in DOMAIN models :
            \A p \in {price(data[a])} :
                \A t \in Times :
                    ~Complete(data[a], p, t) =>
                        (weights[a][t] = 0 /\ <<a, t>> \notin written)

C6_Witness ==
    /\ pc = "predicted"
    /\ \E a \in DOMAIN models :
        /\ \E t \in Times : <<a, t>> \in written
        /\ \E t \in Times :
            /\ get_features(data, a, t)["trend"] = NaNF
            /\ get_features(data, a, t)["momentum"] # NaNF
            /\ weights[a][t] = 0

\* C7: in the tensor of predict_weights every entry of an asset that is not
\* in the mapping, or that has no complete feature row in the window, is
\* zero.
C7_NoModelOrNoRowsZero ==
    pc \in {"predict", "predicted"} =>
        \A a \in Assets :
            (a \notin DOMAIN models \/ features_cur(data, a) = <<>>) =>
                \A t \in Times : weights[a][t] = 0

C7_Witness ==
    /\ pc = "predicted"
    /\ \E a \in Assets : a \notin DOMAIN models
    /\ \E b \in DOMAIN models : features_cur(data, b) = <<>>

\* C8: at every time t but the last, get_target_classes gives 1 when
\* close(t+1) > close(t) and 0 otherwise.
C8_LabelIsNextDayUp ==
    ftarget # <<>> =>
        \A a \in Assets :
            \A t \in 1..(WindowLen - 1) :
                LET c == fdata[a].close
                    up == c[t] # NaN /\ c[t + 1] # NaN /\ c[t + 1] > c[t]
                IN  ftarget[a][t] = IF up THEN 1 ELSE 0

C8_Witness ==
    /\ ftarget # <<>>
    /\ \E a \in Assets :
        LET c == fdata[a].close
        IN  /\ \E t \in 1..(WindowLen - 1) :
                c[t] # NaN /\ c[t + 1] > c[t] /\ ftarget[a][t] = 1
            /\ \E t \in 1..(WindowLen - 1) :
                c[t] # NaN /\ c[t + 1] = c[t] /\ ftarget[a][t] = 0
            /\ \E t \in 1..(WindowLen - 1) :
                c[t + 1] # NaN /\ c[t + 1] < c[t] /\ ftarget[a][t] = 0

\* C9: the label get_target_classes gives at the last time of the window is
\* missing.
C9_LastLabelMissing ==
    ftarget # <<>> => \A a \in Assets : IsNaN(ftarget[a][WindowLen])

\* C10: every channel of get_features read at time t is the same whether
\* computed from the whole window or from the window cut at t.
C10_NoLookahead ==
    ft # 0 => \A a \in Assets : \A c \in Channels : ffull[a][c] = ftrunc[a][c]


\* no field of any asset is missing at any time of window d
NoMissing(d) ==
    \A a \in Assets : \A f \in Fields :
        Len(d[a][f]) = WindowLen /\ \A t \in Times : ~IsNaN(d[a][f][t])

\* the model of asset a was fit on the complete rows of a window with no
\* missing data: every row from the end of the warm-up to the last day
FitOnFullWindow(a) ==
    /\ a \in DOMAIN models
    /\ Len(models[a].time) = WindowLen - Warmup + 1
    /\ models[a].time[1] = Warmup

\* C11: end to end on windows with no missing data, where every asset has
\* more than 10 samples after the warm-up: when no call of fit raises,
\* train_model returns a model for every asset, and the tensor
\* predict_weights returns with that mapping has no missing entry: every
\* entry is a prediction that was assigned or the initial zero.
C11_EndToEndNoMissing ==
    /\ (pc = "trained" /\ NoMissing(data)
        /\ \A a \in Assets : ~Logged("model training failed", a))
            => \A a \in Assets :
                /\ aligned_samples(data, a) > MinSamples
                /\ a \in DOMAIN models
    /\ (pc = "predicted" /\ NoMissing(data)
        /\ \A a \in Assets : FitOnFullWindow(a))
            => \A a \in Assets : \A t \in Times :
                /\ ~IsNaN(weights[a][t])
                /\ IF <<a, t>> \in written
                   THEN weights[a][t] \in 0..n_neighbors
                   ELSE weights[a][t] = 0

C11_Witness ==
    /\ pc = "predicted"
    /\ NoMissing(data)
    /\ log = <<>>
    /\ \A a \in Assets :
        /\ FitOnFullWindow(a)
        /\ <<a, WindowLen>> \in written
        /\ <<a, 1>> \notin written


\* C13: no model is fit on the row of the last day of the training window,
\* whose label is undefined because no next-day close exists.
C13_LastRowNotFitted ==
    \A a \in DOMAIN models :
        \A i \in DOMAIN models[a].time : models[a].time[i] # WindowLen


\* C14: a step of the loop of predict_weights for asset A leaves the weights
\* and the assigned coordinates of every other asset as they were, and a
\* step of the loop of train_model for asset A leaves the mapping entry of
\* every other asset as it was (present with the same model, or absent).
C14_LoopStepOwnAsset ==
    [][ /\ InLoop("predict") =>
            \A b \in Assets \ {asset_name} :
                /\ weights'[b] = weights[b]
                /\ \A t \in Times : <<b, t>> \in written' <=> <<b, t>> \in written
        /\ InLoop("train") =>
            \A b \in Assets \ {asset_name} :
                /\ b \in DOMAIN models' <=> b \in DOMAIN models
                /\ b \in DOMAIN models => models'[b] = models[b]
      ]_vars

C14_Witness ==
    /\ pc = "predict"
    /\ idx = Len(asset_name_all) + 1
    /\ DOMAIN models = Assets
    /\ lastcall = [fn |-> "predict", asset |-> asset_name_all[2], outcome |-> "ok"]
    /\ \E t \in Times :
        /\ <<asset_name_all[1], t>> \in written
        /\ <<asset_name_all[2], t>> \notin written
        /\ weights[asset_name_all[1]][t] # 0


\* C15: every call of train_model starts from an empty mapping; while the
\* call runs and when it has returned, the mapping holds only models that
\* this call fit on its own window, for assets the loop has passed, and an
\* asset that this call skipped or whose fit raised has no entry, whatever
\* the mapping of the call before held.
C15_MappingReplacedEachCall ==
    (cycle >= 1 /\ pc \in {"train", "trained"}) =>
        /\ idx = 1 => models = EmptyMap
        /\ \A a \in DOMAIN models :
            /\ AssetIndex(a) < idx
            /\ aligned_samples(data, a) >= MinSamples
            /\ models[a] = fit(for_learn(data, a), get_target_classes(data)[a])
        /\ \A a \in Assets :
            aligned_samples(data, a) < MinSamples => a \notin DOMAIN models
        /\ (lastcall.fn = "fit" /\ lastcall.outcome \in Exceptions)
            => lastcall.asset \notin DOMAIN models

C15_Witness ==
    /\ cycle = 2
    /\ pc = "trained"
    /\ DOMAIN prev = Assets
    /\ models = EmptyMap
    /\ aligned_samples(data, asset_name_all[1]) < MinSamples
    /\ lastcall = [fn |-> "fit", asset |-> asset_name_all[2],
                   outcome |-> "Exception"]


====
